---- MODULE Spec2Model ----
(***************************************************************************)
(* GPU filter channel allocation of kepler.gl, src/utils/gpu-filter-utils.js *)
(*                                                                         *)
(* A filter is a record [id, dataId, gpu, gpuChannel, ...].  dataId is a   *)
(* JavaScript array of dataset ids, gpuChannel is either undefined         *)
(* (Absent) or a JavaScript array (Some(arr)).  A JavaScript array is a    *)
(* sequence whose entries are numbers, the value undefined, or a hole (an  *)
(* index below length that was never written).  Indices of the source are  *)
(* 0-based; the helpers below take 0-based indices.                        *)
(***************************************************************************)
EXTENDS Integers, Sequences, FiniteSets, TLC

VARIABLES
  MAX_GPU_FILTERS,  \* the imported configuration constant; fixed by Init
  stateFilters,     \* the caller's filter collection (its objects, as they are now)
  op,               \* the operation that acted last
  target,           \* 1-based index of the filter the last operation was called on (0: none)
  before,           \* the caller's collection as it was when the last call was made
  result,           \* the value the last call returned
  previous          \* the value the call before the last one returned

vars == <<MAX_GPU_FILTERS, stateFilters, op, target, before, result, previous>>

(***************************************************************************)
(* Bounds of the model                                                     *)
(***************************************************************************)
\* value of MAX_GPU_FILTERS in the specifications that do not fix it otherwise
Capacity == 2
\* number of filters a collection holds at most
MaxFilters == 3

\* the dataset ids
DataSets == {"d1", "d2"}
FilterIds == 1..MaxFilters

(***************************************************************************)
(* JavaScript values                                                       *)
(***************************************************************************)
\* the value undefined as an array entry or as the result of an index read
Undefined == -1
\* an array slot that was never written (sparse array)
Hole == -2
\* filter.gpuChannel === undefined
Absent == <<>>
Some(arr) == <<arr>>

\* Number.isFinite on what an entry read can give
IsFinite(v) == v >= 0

\* arr[idx]: undefined out of range and for a hole
ArrGet(arr, idx) ==
  IF idx >= 0 /\ idx < Len(arr) /\ arr[idx + 1] # Hole THEN arr[idx + 1] ELSE Undefined

\* arr[idx] = v: a write past the end extends the array and leaves holes
ArrSet(arr, idx, v) ==
  IF idx < Len(arr)
  THEN [arr EXCEPT ![idx + 1] = v]
  ELSE arr \o [k \in 1..(idx - Len(arr)) |-> Hole] \o <<v>>

\* arr.every(Number.isFinite): every() does not visit holes
EveryFinite(arr) == \A k \in 1..Len(arr) : arr[k] = Hole \/ IsFinite(arr[k])

\* arr.indexOf(x): the first 0-based index of x, -1 when there is none
IndexOf(arr, x) ==
  IF \E k \in 1..Len(arr) : arr[k] = x
  THEN (CHOOSE k \in 1..Len(arr) : arr[k] = x /\ \A j \in 1..(k - 1) : arr[j] # x) - 1
  ELSE 0 - 1

\* arr.includes(x)
Includes(arr, x) == \E k \in 1..Len(arr) : arr[k] = x

\* arrayfy of ./utils: an array is itself, undefined is the empty array
arrayfy(thing) == IF thing = Absent THEN <<>> ELSE thing[1]

\* set of ./utils: a copy of obj with the entry at key replaced
set(key, value, obj) == [obj EXCEPT ![key] = value]

(***************************************************************************)
(* setFilterGpuMode                                                        *)
(***************************************************************************)
\* the value the forEach callback returns for one dataset (Undefined stands
\* for no return)
setFilterGpuModeCallback(filter, filters, dataId) ==
  LET gpuFilters == SelectSeq(filters, LAMBDA f : Includes(f.dataId, dataId) /\ f.gpu)
  IN  IF filter.gpu /\ Len(gpuFilters) = MAX_GPU_FILTERS
      THEN set("gpu", FALSE, filter)
      ELSE Undefined

\* forEach drops what its callback returns; the function returns its argument
setFilterGpuMode(filter, filters) ==
  LET dropped == [k \in 1..Len(filter.dataId) |->
                    setFilterGpuModeCallback(filter, filters, filter.dataId[k])]
  IN  filter

(***************************************************************************)
(* assignGpuChannel                                                        *)
(***************************************************************************)
\* findGpuChannel reading the other filter's gpuChannel at the position the
\* dataset has in the filter being placed, not at the other filter's own
findGpuChannel_ownPosition(filter, dataId, channel, f) ==
  LET dataIdx == IndexOf(f.dataId, dataId)
  IN  /\ f.id # filter.id
      /\ dataIdx > -1
      /\ f.gpu
      /\ ArrGet(arrayfy(f.gpuChannel), IndexOf(filter.dataId, dataId)) = channel

\* findGpuChannel counting the channels of filters with gpu = false as held
findGpuChannel_anyMode(filter, dataId, channel, f) ==
  LET dataIdx == IndexOf(f.dataId, dataId)
  IN  /\ f.id # filter.id
      /\ dataIdx > -1
      /\ ArrGet(arrayfy(f.gpuChannel), dataIdx) = channel

\* findGpuChannel(channel)(f) inside the forEach over filter.dataId
findGpuChannel(filter, dataId, channel, f) ==
  LET dataIdx == IndexOf(f.dataId, dataId)
  IN  /\ f.id # filter.id
      /\ dataIdx > -1
      /\ f.gpu
      /\ ArrGet(arrayfy(f.gpuChannel), dataIdx) = channel

\* filters.find(findGpuChannel(channel)) is not undefined
findsGpuChannel(filter, filters, dataId, channel) ==
  \E k \in 1..Len(filters) : findGpuChannel(filter, dataId, channel, filters[k])

\* the while loop taking the last channel nobody else holds instead of the first
RECURSIVE firstAvailable_lastFit(_, _, _, _)
firstAvailable_lastFit(filter, filters, dataId, i) ==
  IF i >= MAX_GPU_FILTERS THEN MAX_GPU_FILTERS
  ELSE IF firstAvailable_lastFit(filter, filters, dataId, i + 1) < MAX_GPU_FILTERS
       THEN firstAvailable_lastFit(filter, filters, dataId, i + 1)
  ELSE IF ~findsGpuChannel(filter, filters, dataId, i) THEN i
  ELSE MAX_GPU_FILTERS

\* the while loop from i: the first i..MAX_GPU_FILTERS-1 nobody else holds,
\* MAX_GPU_FILTERS when the loop runs out
RECURSIVE firstAvailable(_, _, _, _)
firstAvailable(filter, filters, dataId, i) ==
  IF i >= MAX_GPU_FILTERS THEN MAX_GPU_FILTERS
  ELSE IF ~findsGpuChannel(filter, filters, dataId, i) THEN i
  ELSE firstAvailable(filter, filters, dataId, i + 1)

\* the forEach callback scanning for a channel even when the one the filter
\* holds is finite and nobody else holds it
assignDataset_alwaysScan(filter, filters, gpuChannel, datasetIdx) ==
  LET dataId == filter.dataId[datasetIdx + 1]
      i      == firstAvailable(filter, filters, dataId, 0)
  IN  IF i < MAX_GPU_FILTERS THEN ArrSet(gpuChannel, datasetIdx, i)
      ELSE gpuChannel

\* one call of the forEach callback: the array gpuChannel after it
assignDataset(filter, filters, gpuChannel, datasetIdx) ==
  LET dataId == filter.dataId[datasetIdx + 1]
      cur    == ArrGet(gpuChannel, datasetIdx)
      i      == firstAvailable(filter, filters, dataId, 0)
  IN  IF IsFinite(cur) /\ ~findsGpuChannel(filter, filters, dataId, cur)
      THEN gpuChannel
      ELSE IF i < MAX_GPU_FILTERS THEN ArrSet(gpuChannel, datasetIdx, i)
      ELSE gpuChannel

\* the forEach leaving out the last dataset of the filter
RECURSIVE assignEachDataset_skipLast(_, _, _, _)
assignEachDataset_skipLast(filter, filters, gpuChannel, datasetIdx) ==
  IF datasetIdx >= Len(filter.dataId) - 1 THEN gpuChannel
  ELSE assignEachDataset_skipLast(filter, filters,
                                  assignDataset(filter, filters, gpuChannel, datasetIdx),
                                  datasetIdx + 1)

\* filter.dataId.forEach from position datasetIdx on
RECURSIVE assignEachDataset(_, _, _, _)
assignEachDataset(filter, filters, gpuChannel, datasetIdx) ==
  IF datasetIdx >= Len(filter.dataId) THEN gpuChannel
  ELSE assignEachDataset(filter, filters,
                         assignDataset(filter, filters, gpuChannel, datasetIdx),
                         datasetIdx + 1)

\* The call assignGpuChannel(filter, filters).  gpuChannel is filter.gpuChannel
\* itself when the filter has one, so the writes of the loop go to the caller's
\* array.  ret is the returned filter, arg is the caller's filter object after
\* the call.
assignGpuChannelCall(filter, filters) ==
  IF ~filter.gpu THEN [ret |-> filter, arg |-> filter]
  ELSE
    LET gpuChannel == assignEachDataset(filter, filters, arrayfy(filter.gpuChannel), 0)
        arg == IF filter.gpuChannel = Absent
               THEN filter
               ELSE [filter EXCEPT !.gpuChannel = Some(gpuChannel)]
    IN  IF Len(gpuChannel) = 0 \/ ~EveryFinite(gpuChannel)
        THEN [ret |-> [arg EXCEPT !.gpu = FALSE], arg |-> arg]
        ELSE [ret |-> [arg EXCEPT !.gpuChannel = Some(gpuChannel)], arg |-> arg]

assignGpuChannel(filter, filters) == assignGpuChannelCall(filter, filters).ret

(***************************************************************************)
(* assignGpuChannels                                                       *)
(***************************************************************************)
\* the reduce giving each call only the filters up to the one it assigns
RECURSIVE assignGpuChannelsFrom_upToIndex(_, _, _)
assignGpuChannelsFrom_upToIndex(accu, args, index) ==
  IF index > Len(accu) THEN [ret |-> accu, arg |-> args]
  ELSE
    LET f == accu[index]
        r == assignGpuChannelCall(f, SubSeq(accu, 1, index))
    IN  IF f.gpu
        THEN assignGpuChannelsFrom_upToIndex(set(index, r.ret, accu), set(index, r.arg, args),
                                             index + 1)
        ELSE assignGpuChannelsFrom_upToIndex(accu, args, index + 1)

\* the reduce dropping the gpuChannel of the filters with gpu = false
RECURSIVE assignGpuChannelsFrom_clearsInactive(_, _, _)
assignGpuChannelsFrom_clearsInactive(accu, args, index) ==
  IF index > Len(accu) THEN [ret |-> accu, arg |-> args]
  ELSE
    LET f == accu[index]
        r == assignGpuChannelCall(f, accu)
    IN  IF f.gpu
        THEN assignGpuChannelsFrom_clearsInactive(set(index, r.ret, accu),
                                                  set(index, r.arg, args), index + 1)
        ELSE assignGpuChannelsFrom_clearsInactive(
               set(index, [f EXCEPT !.gpuChannel = Absent], accu), args, index + 1)

\* allFilters.reduce from position index (1-based) on.  accu is the
\* accumulator, args the caller's filter objects as the calls so far left them.
RECURSIVE assignGpuChannelsFrom(_, _, _)
assignGpuChannelsFrom(accu, args, index) ==
  IF index > Len(accu) THEN [ret |-> accu, arg |-> args]
  ELSE
    LET f == accu[index]
        r == assignGpuChannelCall(f, accu)
    IN  IF f.gpu
        THEN assignGpuChannelsFrom(set(index, r.ret, accu), set(index, r.arg, args), index + 1)
        ELSE assignGpuChannelsFrom(accu, args, index + 1)

assignGpuChannelsCall(allFilters) == assignGpuChannelsFrom(allFilters, allFilters, 1)

assignGpuChannels(allFilters) == assignGpuChannelsCall(allFilters).ret

(***************************************************************************)
(* resetFilterGpuMode                                                      *)
(***************************************************************************)
\* arrayfy(f.dataId).forEach from position k (1-based) on: the flag gpu and
\* the counters after it.  A counter that is undefined in the source is 0 here:
\* MAX_GPU_FILTERS is positive, so undefined === MAX_GPU_FILTERS and
\* 0 = MAX_GPU_FILTERS are both false, and count ? count + 1 : 1 is count + 1.
\* resetEachDataset refusing a filter only once the counter is past the limit
RECURSIVE resetEachDataset_pastLimit(_, _, _, _)
resetEachDataset_pastLimit(dataId, k, gpu, gpuPerDataset) ==
  IF k > Len(dataId) THEN [gpu |-> gpu, gpuPerDataset |-> gpuPerDataset]
  ELSE
    LET count == gpuPerDataset[dataId[k]]
    IN  IF count = MAX_GPU_FILTERS + 1
        THEN resetEachDataset_pastLimit(dataId, k + 1, FALSE, gpuPerDataset)
        ELSE resetEachDataset_pastLimit(dataId, k + 1, gpu,
                                        [gpuPerDataset EXCEPT ![dataId[k]] = count + 1])

RECURSIVE resetEachDataset(_, _, _, _)
resetEachDataset(dataId, k, gpu, gpuPerDataset) ==
  IF k > Len(dataId) THEN [gpu |-> gpu, gpuPerDataset |-> gpuPerDataset]
  ELSE
    LET count == gpuPerDataset[dataId[k]]
    IN  IF count = MAX_GPU_FILTERS
        THEN resetEachDataset(dataId, k + 1, FALSE, gpuPerDataset)
        ELSE resetEachDataset(dataId, k + 1, gpu,
                              [gpuPerDataset EXCEPT ![dataId[k]] = count + 1])

\* resetFrom counting a filter only when it is admitted
RECURSIVE resetFrom_countAdmitted(_, _, _, _)
resetFrom_countAdmitted(fs, i, gpuPerDataset, out) ==
  IF i > Len(fs) THEN out
  ELSE
    LET f == fs[i]
        r == resetEachDataset(f.dataId, 1, TRUE, gpuPerDataset)
    IN  IF f.gpu /\ r.gpu
        THEN resetFrom_countAdmitted(fs, i + 1, r.gpuPerDataset, Append(out, f))
        ELSE resetFrom_countAdmitted(fs, i + 1, gpuPerDataset,
                                     Append(out, IF f.gpu THEN set("gpu", FALSE, f) ELSE f))

\* filters.map from position i (1-based) on, out the filters mapped so far
RECURSIVE resetFrom(_, _, _, _)
resetFrom(fs, i, gpuPerDataset, out) ==
  IF i > Len(fs) THEN out
  ELSE
    LET f == fs[i]
        r == resetEachDataset(f.dataId, 1, TRUE, gpuPerDataset)
    IN  IF f.gpu
        THEN resetFrom(fs, i + 1, r.gpuPerDataset,
                       Append(out, IF ~r.gpu THEN set("gpu", FALSE, f) ELSE f))
        ELSE resetFrom(fs, i + 1, gpuPerDataset, Append(out, f))

resetFilterGpuMode(fs) == resetFrom(fs, 1, [d \in DataSets |-> 0], <<>>)

(***************************************************************************)
(* The filter-editing layer: every edit runs the Capacity Enforcer and     *)
(* then the Batch Reallocator on the whole collection.                     *)
(***************************************************************************)
\* dataId lists: non-empty, no dataset twice
DataIdLists ==
  {s \in UNION {[1..n -> DataSets] : n \in 1..Cardinality(DataSets)} :
     \A i, j \in 1..Len(s) : i # j => s[i] # s[j]}

\* a filter as the editing layer creates it: gpu requested, no channel yet
newFilter(id, dataId) ==
  [id |-> id, dataId |-> dataId, gpu |-> TRUE, gpuChannel |-> Absent]

usedIds(fs) == {fs[k].id : k \in 1..Len(fs)}

removeAt(fs, i) == [k \in 1..(Len(fs) - 1) |-> IF k < i THEN fs[k] ELSE fs[k + 1]]

\* what the layer runs after each edit
reallocate(fs) == assignGpuChannels(resetFilterGpuMode(fs))

Init ==
  /\ MAX_GPU_FILTERS = Capacity
  /\ stateFilters = <<>>
  /\ op = "none"
  /\ target = 0
  /\ before = <<>>
  /\ result = <<>>
  /\ previous = <<>>

AddFilter ==
  /\ Len(stateFilters) < MaxFilters
  /\ \E id \in FilterIds \ usedIds(stateFilters), dataId \in DataIdLists :
       stateFilters' = reallocate(Append(stateFilters, newFilter(id, dataId)))
  /\ op' = "add"
  /\ target' = Len(stateFilters) + 1
  /\ UNCHANGED <<MAX_GPU_FILTERS, before, result, previous>>

RemoveFilter ==
  /\ \E i \in 1..Len(stateFilters) :
       /\ stateFilters' = reallocate(removeAt(stateFilters, i))
       /\ target' = i
  /\ op' = "remove"
  /\ UNCHANGED <<MAX_GPU_FILTERS, before, result, previous>>

ToggleGpu ==
  /\ \E i \in 1..Len(stateFilters) :
       /\ stateFilters' = reallocate(set(i, set("gpu", ~stateFilters[i].gpu, stateFilters[i]), stateFilters))
       /\ target' = i
  /\ op' = "toggle"
  /\ UNCHANGED <<MAX_GPU_FILTERS, before, result, previous>>

Next == AddFilter \/ RemoveFilter \/ ToggleGpu

Spec == Init /\ [][Next]_vars

(***************************************************************************)
(* Notions the properties share                                            *)
(***************************************************************************)
\* the filter is an active GPU filter for dataset D
activeOn(f, D) == f.gpu /\ Includes(f.dataId, D)

\* what the filter holds at D's position of gpuChannel (Undefined: nothing)
channelAt(f, D) == ArrGet(arrayfy(f.gpuChannel), IndexOf(f.dataId, D))

\* the number of active GPU filters of a collection for dataset D
activeCount(fs, D) == Cardinality({k \in 1..Len(fs) : activeOn(fs[k], D)})

\* no two distinct active GPU filters hold the same channel index for a dataset
injective(fs) ==
  \A D \in DataSets : \A i, j \in 1..Len(fs) :
    (i # j /\ activeOn(fs[i], D) /\ activeOn(fs[j], D) /\ IsFinite(channelAt(fs[i], D)))
      => channelAt(fs[i], D) # channelAt(fs[j], D)

\* C1: in every state the editing layer reaches from the empty collection
\* (append, remove, toggle, each followed by resetFilterGpuMode and
\* assignGpuChannels), no two distinct gpu = true filters touching a dataset D
\* hold the same channel index at D's position.
C1_Injectivity == injective(stateFilters)

\* a dataset is full (two active filters on distinct channels, one of them
\* spanning both datasets) and a further filter on it was refused
C1_Witness ==
  \E D \in DataSets : \E i, j, k \in 1..Len(stateFilters) :
    /\ i # j
    /\ activeOn(stateFilters[i], D) /\ activeOn(stateFilters[j], D)
    /\ Len(stateFilters[i].dataId) > 1
    /\ IsFinite(channelAt(stateFilters[i], D)) /\ IsFinite(channelAt(stateFilters[j], D))
    /\ ~stateFilters[k].gpu /\ Includes(stateFilters[k].dataId, D)
    /\ op = "toggle"

(***************************************************************************)
(* The single-filter path of the editing layer: the changed filter goes    *)
(* through setFilterGpuMode, the collection through assignGpuChannels;     *)
(* resetFilterGpuMode is not called.                                       *)
(***************************************************************************)
AddFilterSingle ==
  /\ Len(stateFilters) < MaxFilters
  /\ \E id \in FilterIds \ usedIds(stateFilters), dataId \in DataIdLists :
       stateFilters' = assignGpuChannels(
           Append(stateFilters, setFilterGpuMode(newFilter(id, dataId), stateFilters)))
  /\ op' = "add"
  /\ target' = Len(stateFilters) + 1
  /\ UNCHANGED <<MAX_GPU_FILTERS, before, result, previous>>

EnableGpuSingle ==
  /\ \E i \in 1..Len(stateFilters) :
       /\ ~stateFilters[i].gpu
       /\ stateFilters' = assignGpuChannels(
            set(i, setFilterGpuMode(set("gpu", TRUE, stateFilters[i]), stateFilters),
                stateFilters))
       /\ target' = i
  /\ op' = "enable"
  /\ UNCHANGED <<MAX_GPU_FILTERS, before, result, previous>>

DisableGpuSingle ==
  /\ \E i \in 1..Len(stateFilters) :
       /\ stateFilters[i].gpu
       /\ stateFilters' = assignGpuChannels(
            set(i, set("gpu", FALSE, stateFilters[i]), stateFilters))
       /\ target' = i
  /\ op' = "disable"
  /\ UNCHANGED <<MAX_GPU_FILTERS, before, result, previous>>

RemoveFilterSingle ==
  /\ \E i \in 1..Len(stateFilters) :
       /\ stateFilters' = assignGpuChannels(removeAt(stateFilters, i))
       /\ target' = i
  /\ op' = "remove"
  /\ UNCHANGED <<MAX_GPU_FILTERS, before, result, previous>>

NextSingle == AddFilterSingle \/ EnableGpuSingle \/ DisableGpuSingle \/ RemoveFilterSingle

SpecSingle == Init /\ [][NextSingle]_vars

\* C2: on the single-filter path, in every reachable state and for every
\* dataset D, at most MAX_GPU_FILTERS filters with gpu = true touch D.
C2_CapacityBound == \A D \in DataSets : activeCount(stateFilters, D) <= MAX_GPU_FILTERS

(***************************************************************************)
(* Calls of the allocator on arbitrary filter collections                  *)
(***************************************************************************)
\* gpuChannel arrays a filter over n datasets may carry into a call: at most
\* n entries, each a channel index or undefined, holes before the last entry;
\* a filter over no dataset may carry one stale entry
ChannelArrays(n) ==
  IF n = 0 THEN {<<>>, <<0>>}
  ELSE {a \in UNION {[1..m -> (0..(Capacity - 1)) \cup {Undefined, Hole}] : m \in 0..n} :
          Len(a) > 0 => a[Len(a)] # Hole}

\* dataId lists of the inputs: DataIdLists and the empty list
InputDataIds == DataIdLists \cup {<<>>}

\* filters (without id) with gpu = true ...
ActiveInputs ==
  UNION {{[dataId |-> d, gpu |-> TRUE, gpuChannel |-> c] :
            c \in {Absent} \cup {Some(a) : a \in ChannelArrays(Len(d))}} : d \in InputDataIds}

\* ... and with gpu = false: without gpuChannel, or with a full stale one
InactiveInputs ==
  UNION {{[dataId |-> d, gpu |-> FALSE, gpuChannel |-> c] :
            c \in {Absent, Some([k \in 1..Len(d) |-> 0])}} : d \in InputDataIds}

\* the collection whose k-th filter is bodies[k] with id k
withIds(bodies) ==
  [k \in 1..Len(bodies) |->
     [id |-> k, dataId |-> bodies[k].dataId, gpu |-> bodies[k].gpu,
      gpuChannel |-> bodies[k].gpuChannel]]

InputFilters == ActiveInputs \cup InactiveInputs

InitAlloc ==
  /\ MAX_GPU_FILTERS = Capacity
  /\ \E n \in 0..MaxFilters : \E b \in [1..n -> InputFilters] : stateFilters = withIds(b)
  /\ op = "none"
  /\ target = 0
  /\ before = stateFilters
  /\ result = <<>>
  /\ previous = <<>>

\* assignGpuChannel(stateFilters[k], stateFilters)
CallAssignGpuChannel ==
  /\ op = "none"
  /\ \E k \in 1..Len(stateFilters) :
       LET r == assignGpuChannelCall(stateFilters[k], stateFilters)
       IN  /\ stateFilters' = set(k, r.arg, stateFilters)
           /\ result' = r.ret
           /\ target' = k
  /\ op' = "assignGpuChannel"
  /\ before' = stateFilters
  /\ UNCHANGED <<MAX_GPU_FILTERS, previous>>

\* assignGpuChannels(stateFilters)
CallAssignGpuChannels ==
  /\ op = "none"
  /\ LET r == assignGpuChannelsCall(stateFilters)
     IN  /\ stateFilters' = r.arg
         /\ result' = r.ret
  /\ op' = "assignGpuChannels"
  /\ target' = 0
  /\ before' = stateFilters
  /\ UNCHANGED <<MAX_GPU_FILTERS, previous>>

\* assignGpuChannels on the collection the call before returned
CallAssignGpuChannelsAgain ==
  /\ op = "assignGpuChannels"
  /\ LET r == assignGpuChannelsCall(result)
     IN  /\ stateFilters' = r.arg
         /\ result' = r.ret
  /\ op' = "assignGpuChannelsAgain"
  /\ target' = 0
  /\ before' = result
  /\ previous' = result
  /\ UNCHANGED MAX_GPU_FILTERS

NextAlloc == CallAssignGpuChannel \/ CallAssignGpuChannels \/ CallAssignGpuChannelsAgain

SpecAlloc == InitAlloc /\ [][NextAlloc]_vars

\* some active GPU filter of fs other than the one at index k holds channel c
\* for dataset D
heldByOther(fs, k, D, c) ==
  \E j \in 1..Len(fs) : j # k /\ activeOn(fs[j], D) /\ channelAt(fs[j], D) = c

\* every channel of dataset D is held by an active GPU filter of fs other than
\* the one at index k
fullForOthers(fs, k, D) == \A c \in 0..(MAX_GPU_FILTERS - 1) : heldByOther(fs, k, D, c)

\* C4: a gpu = true filter that assignGpuChannel returns with gpu = true holds,
\* at every position of dataId, a finite channel index that no other active
\* GPU filter of the collection holds for that dataset.
C4_AllOrNothing ==
  (op = "assignGpuChannel" /\ before[target].gpu /\ result.gpu)
    => \A p \in 1..Len(result.dataId) :
         LET c == ArrGet(arrayfy(result.gpuChannel), p - 1)
         IN  IsFinite(c) /\ ~heldByOther(before, target, result.dataId[p], c)

\* C5: assignGpuChannels applied to its own result returns every filter with
\* the same gpu flag and the same gpuChannel entries.
C5_Idempotent ==
  op = "assignGpuChannelsAgain"
    => \A k \in 1..Len(before) :
         result[k].gpu = before[k].gpu /\ result[k].gpuChannel = before[k].gpuChannel

\* C8: after a call of assignGpuChannel or assignGpuChannels the filter
\* records and gpuChannel sequences the caller passed in are as they were
\* before the call.
C8_NoMutation ==
  op \in {"assignGpuChannel", "assignGpuChannels", "assignGpuChannelsAgain"}
    => stateFilters = before

\* C9: when assignGpuChannel finds no free channel for some dataset of a
\* gpu = true filter and returns it with gpu = false, the returned filter's
\* gpuChannel is absent or empty.
C9_FailureDiscards ==
  ( /\ op = "assignGpuChannel"
    /\ before[target].gpu
    /\ ~result.gpu
    /\ \E p \in 1..Len(result.dataId) : fullForOthers(before, target, result.dataId[p]) )
    => arrayfy(result.gpuChannel) = <<>>

(***************************************************************************)
(* Calls of the admission functions on arbitrary filter collections        *)
(***************************************************************************)
\* filters (without id) of the admission calls: any dataId list, any gpu flag
AdmissionInputs ==
  {[dataId |-> d, gpu |-> g, gpuChannel |-> Absent] : d \in InputDataIds, g \in BOOLEAN}

InitAdmission ==
  /\ MAX_GPU_FILTERS = Capacity
  /\ \E n \in 0..MaxFilters : \E b \in [1..n -> AdmissionInputs] : stateFilters = withIds(b)
  /\ op = "none"
  /\ target = 0
  /\ before = stateFilters
  /\ result = <<>>
  /\ previous = <<>>

\* resetFilterGpuMode(stateFilters)
CallResetFilterGpuMode ==
  /\ op = "none"
  /\ result' = resetFilterGpuMode(stateFilters)
  /\ op' = "resetFilterGpuMode"
  /\ target' = 0
  /\ before' = stateFilters
  /\ UNCHANGED <<MAX_GPU_FILTERS, stateFilters, previous>>

\* a filter is appended to the collection and resetFilterGpuMode is called on
\* the longer collection
CallResetAppended ==
  /\ op = "resetFilterGpuMode"
  /\ \E g \in AdmissionInputs :
       LET longer == Append(stateFilters,
                            [id |-> Len(stateFilters) + 1, dataId |-> g.dataId,
                             gpu |-> g.gpu, gpuChannel |-> g.gpuChannel])
       IN  /\ stateFilters' = longer
           /\ before' = longer
           /\ result' = resetFilterGpuMode(longer)
  /\ op' = "resetAppended"
  /\ target' = Len(stateFilters) + 1
  /\ previous' = result
  /\ UNCHANGED MAX_GPU_FILTERS

\* setFilterGpuMode(stateFilters[k], passed), where passed is the whole
\* collection or the collection without the filter itself; before is passed
CallSetFilterGpuMode ==
  /\ op = "none"
  /\ \E k \in 1..Len(stateFilters), withSelf \in BOOLEAN :
       LET passed == IF withSelf THEN stateFilters ELSE removeAt(stateFilters, k)
       IN  /\ result' = setFilterGpuMode(stateFilters[k], passed)
           /\ before' = passed
           /\ target' = k
  /\ op' = "setFilterGpuMode"
  /\ UNCHANGED <<MAX_GPU_FILTERS, stateFilters, previous>>

NextAdmission == CallResetFilterGpuMode \/ CallResetAppended \/ CallSetFilterGpuMode

SpecAdmission == InitAdmission /\ [][NextAdmission]_vars

\* C3: in the collection resetFilterGpuMode returns, at most MAX_GPU_FILTERS
\* filters with gpu = true touch any dataset D.
C3_CapacityAfterReset ==
  op \in {"resetFilterGpuMode", "resetAppended"}
    => \A D \in DataSets : activeCount(result, D) <= MAX_GPU_FILTERS

\* a filter over two datasets was refused, and a dataset is used to capacity
C3_Witness ==
  /\ op = "resetFilterGpuMode"
  /\ \E k \in 1..Len(before) :
       before[k].gpu /\ ~result[k].gpu /\ Len(before[k].dataId) > 1
  /\ \E D \in DataSets : activeCount(result, D) = MAX_GPU_FILTERS

\* the number of filters of fs other than filter with gpu = true that touch D
othersActive(fs, filter, D) ==
  Cardinality({j \in 1..Len(fs) : fs[j].id # filter.id /\ activeOn(fs[j], D)})

\* C6: setFilterGpuMode returns a gpu = true filter with gpu = false when, for
\* some dataset of its dataId, MAX_GPU_FILTERS other filters of the collection
\* with gpu = true touch that dataset, and with its gpu flag unchanged otherwise.
C6_SingleFilterCheck ==
  op = "setFilterGpuMode"
    => LET filter == stateFilters[target]
       IN  result.gpu =
             ( /\ filter.gpu
               /\ ~\E p \in 1..Len(filter.dataId) :
                     othersActive(before, filter, filter.dataId[p]) = MAX_GPU_FILTERS )

\* the number of filters with gpu = true in fs that precede index k and touch D
eligibleBefore(fs, k, D) ==
  Cardinality({j \in 1..(k - 1) : activeOn(fs[j], D)})

\* C7: resetFilterGpuMode gives the filter at index k gpu = true exactly when
\* its input gpu was true and, for every dataset D of its dataId, fewer than
\* MAX_GPU_FILTERS filters with input gpu = true touching D precede it; and
\* appending a filter to the collection leaves the flags given to the filters
\* before it as they were.
C7_AdmissionOrder ==
  /\ op \in {"resetFilterGpuMode", "resetAppended"}
       => /\ Len(result) = Len(before)
          /\ \A k \in 1..Len(before) :
               result[k].gpu =
                 ( /\ before[k].gpu
                   /\ \A p \in 1..Len(before[k].dataId) :
                        eligibleBefore(before, k, before[k].dataId[p]) < MAX_GPU_FILTERS )
  /\ op = "resetAppended"
       => \A k \in 1..Len(previous) : result[k].gpu = previous[k].gpu

\* the appended filter is refused on a dataset where an earlier filter was
\* refused too, and the collection also admits filters
C7_Witness ==
  /\ op = "resetAppended"
  /\ before[target].gpu /\ ~result[target].gpu
  /\ \E k \in 1..Len(previous) :
       /\ before[k].gpu /\ ~result[k].gpu
       /\ \E D \in DataSets : Includes(before[k].dataId, D) /\ Includes(before[target].dataId, D)
  /\ \E k \in 1..Len(previous) : result[k].gpu

(***************************************************************************)
(* getGpuFilterProps                                                       *)
(*                                                                         *)
(* Here a filter also has domain and value (pairs [min, max], [low, high]) *)
(* and name (an array parallel to dataId).                                 *)
(***************************************************************************)
\* null as a trigger value
Null == <<>>

\* the key `gpuFilter_${i}` of the triggers object
triggerKey(i) == <<"gpuFilter_", i>>

\* new Array(MAX_GPU_FILTERS).fill(0).map(d => [0, 0])
getEmptyFilterRange == [i \in 1..MAX_GPU_FILTERS |-> <<0, 0>>]

\* filters.find(f => f.gpu && f.dataId.includes(dataId) &&
\*                   f.gpuChannel[f.dataId.indexOf(dataId)] === i) from position k
\* (1-based) on: the position of the filter found, 0 for undefined, -1 when
\* the read of f.gpuChannel[...] throws a TypeError because f.gpuChannel is
\* undefined
RECURSIVE findChannelFilter(_, _, _, _)
findChannelFilter(filters, dataId, i, k) ==
  IF k > Len(filters) THEN 0
  ELSE
    LET f == filters[k]
    IN  IF ~(f.gpu /\ Includes(f.dataId, dataId))
        THEN findChannelFilter(filters, dataId, i, k + 1)
        ELSE IF f.gpuChannel = Absent THEN 0 - 1
        ELSE IF ArrGet(f.gpuChannel[1], IndexOf(f.dataId, dataId)) = i THEN k
        ELSE findChannelFilter(filters, dataId, i, k + 1)

\* filterRange[i][0], filterRange[i][1] for the filter found
channelRange_noOffset(filter) == <<filter.value[1], filter.value[2]>>

channelRange(filter) ==
  <<filter.value[1] - filter.domain[1], filter.value[2] - filter.domain[1]>>

\* the for loop from channel i on; acc holds filterRange, triggers, channels
\* (positions in filters, 0 for undefined) and whether a TypeError was thrown
RECURSIVE gpuFilterPropsFrom(_, _, _, _)
gpuFilterPropsFrom(filters, dataId, i, acc) ==
  IF i >= MAX_GPU_FILTERS \/ acc.threw THEN acc
  ELSE
    LET k == findChannelFilter(filters, dataId, i, 1)
    IN  IF k = -1
        THEN [acc EXCEPT !.threw = TRUE]
        ELSE gpuFilterPropsFrom(filters, dataId, i + 1,
               [threw |-> FALSE,
                filterRange |->
                  [acc.filterRange EXCEPT
                     ![i + 1] = IF k # 0 THEN channelRange(filters[k]) ELSE <<0, 0>>],
                filterValueUpdateTriggers |->
                  (triggerKey(i) :>
                     (IF k # 0
                      THEN filters[k].name[IndexOf(filters[k].dataId, dataId) + 1]
                      ELSE Null))
                  @@ acc.filterValueUpdateTriggers,
                channels |-> Append(acc.channels, k)])

getGpuFilterProps(filters, dataId) ==
  gpuFilterPropsFrom(filters, dataId, 0,
    [threw |-> FALSE, filterRange |-> getEmptyFilterRange,
     filterValueUpdateTriggers |-> <<>>, channels |-> <<>>])

(***************************************************************************)
(* Calls of getGpuFilterProps, on arbitrary collections and on collections *)
(* assignGpuChannels returned                                              *)
(***************************************************************************)
\* domain and value of the input filters
RangeInputs ==
  { [domain |-> <<0, 100>>, value |-> <<10, 20>>],
    [domain |-> <<0, 50>>,  value |-> <<5, 15>>],
    [domain |-> <<3, 9>>,   value |-> <<4, 6>>] }

\* the arbitrary collections take two of them, one with a domain minimum
\* that is not 0
RenderRanges == {r \in RangeInputs : r.domain # <<0, 100>>}

\* gpuChannel of the input filters with gpu = true: none, a full array of
\* channel indices, or the array [hole, 0] over two datasets
RenderChannels(n) ==
  {Absent} \cup {Some(a) : a \in [1..n -> 0..(Capacity - 1)]}
           \cup (IF n = 2 THEN {Some(<<Hole, 0>>)} ELSE {})

RenderInputs ==
  UNION {{[dataId |-> d, gpu |-> TRUE, gpuChannel |-> c, domain |-> r.domain, value |-> r.value] :
            c \in RenderChannels(Len(d)), r \in RenderRanges} : d \in DataIdLists}
  \cup {[dataId |-> d, gpu |-> FALSE, gpuChannel |-> Some([k \in 1..Len(d) |-> 0]),
         domain |-> <<3, 9>>, value |-> <<4, 6>>] : d \in DataIdLists}

\* the name of the field filter id reads in a dataset
fieldName(id, dataId) == <<"field", id, dataId>>

\* the collection whose k-th filter is bodies[k] with id k and its names
withIdsAndNames(bodies) ==
  [k \in 1..Len(bodies) |->
     [id |-> k, dataId |-> bodies[k].dataId, gpu |-> bodies[k].gpu,
      gpuChannel |-> bodies[k].gpuChannel, domain |-> bodies[k].domain,
      value |-> bodies[k].value,
      name |-> [p \in 1..Len(bodies[k].dataId) |-> fieldName(k, bodies[k].dataId[p])]]]

\* filters on dataset d1 as the editing layer creates them
FreshInputs ==
  {[dataId |-> <<"d1">>, gpu |-> TRUE, gpuChannel |-> Absent, domain |-> r.domain,
    value |-> r.value] : r \in RangeInputs}

\* either any collection under the capacity of the other specifications, or
\* new filters on one dataset under a capacity of 4
InitRender ==
  /\ \/ /\ MAX_GPU_FILTERS = Capacity
        /\ \E n \in 0..MaxFilters : \E b \in [1..n -> RenderInputs] :
             stateFilters = withIdsAndNames(b)
     \/ /\ MAX_GPU_FILTERS = 4
        /\ \E n \in 0..MaxFilters : \E b \in [1..n -> FreshInputs] :
             stateFilters = withIdsAndNames(b)
  /\ op = "none"
  /\ target = 0
  /\ before = stateFilters
  /\ result = <<>>
  /\ previous = <<>>

\* the collection is replaced by what assignGpuChannels returns for it
Allocate ==
  /\ op = "none"
  /\ stateFilters' = assignGpuChannels(stateFilters)
  /\ op' = "allocated"
  /\ before' = stateFilters
  /\ UNCHANGED <<MAX_GPU_FILTERS, target, result, previous>>

\* getGpuFilterProps(stateFilters, dataId)
Render ==
  /\ op \in {"none", "allocated"}
  /\ \E dataId \in DataSets :
       result' = [dataId |-> dataId, props |-> getGpuFilterProps(stateFilters, dataId)]
  /\ op' = "getGpuFilterProps"
  /\ previous' = op
  /\ UNCHANGED <<MAX_GPU_FILTERS, stateFilters, target, before>>

NextRender == Allocate \/ Render

SpecRender == InitRender /\ [][NextRender]_vars

\* the positions of the active GPU filters of fs that hold channel i for D
holders(fs, D, i) == {k \in 1..Len(fs) : activeOn(fs[k], D) /\ channelAt(fs[k], D) = i}

\* props is the range table and the trigger map of fs for dataset D
uniformTable(fs, D, props) ==
  /\ ~props.threw
  /\ Len(props.filterRange) = MAX_GPU_FILTERS
  /\ DOMAIN props.filterValueUpdateTriggers = {triggerKey(i) : i \in 0..(MAX_GPU_FILTERS - 1)}
  /\ \A i \in 0..(MAX_GPU_FILTERS - 1) :
       /\ holders(fs, D, i) = {}
            => /\ props.filterRange[i + 1] = <<0, 0>>
               /\ props.filterValueUpdateTriggers[triggerKey(i)] = Null
       /\ \A k \in holders(fs, D, i) :
            /\ props.filterRange[i + 1] =
                 <<fs[k].value[1] - fs[k].domain[1], fs[k].value[2] - fs[k].domain[1]>>
            /\ props.filterValueUpdateTriggers[triggerKey(i)] = fieldName(fs[k].id, D)

\* two new filters on one dataset, allocated under a capacity of 4, and the
\* table of that dataset
twoFreshAllocated ==
  /\ MAX_GPU_FILTERS = 4
  /\ previous = "allocated"
  /\ Len(before) = 2
  /\ result.dataId = "d1"

\* what the scenario of two new filters gives
twoFreshTable ==
  /\ stateFilters[1].gpu /\ stateFilters[1].gpuChannel = Some(<<0>>)
  /\ stateFilters[2].gpu /\ stateFilters[2].gpuChannel = Some(<<1>>)
  /\ \A k \in 1..2 :
       result.props.filterRange[k] =
         <<before[k].value[1] - before[k].domain[1], before[k].value[2] - before[k].domain[1]>>
  /\ result.props.filterRange[3] = <<0, 0>>
  /\ result.props.filterRange[4] = <<0, 0>>

channelsPresent(fs, D) ==
  \A k \in 1..Len(fs) : activeOn(fs[k], D) => fs[k].gpuChannel # Absent

NullEntry == -3

\* Number.MIN_SAFE_INTEGER, -(2^53 - 1).  The integers of the model have 32
\* bits, so the least of them stands for it; no arithmetic is done on it.
MIN_SAFE_INTEGER == -2147483647

\* notNullorUndefined of ./data-utils
notNullorUndefined(d) == d # Undefined /\ d # NullEntry

\* defaultGetIndex, defaultGetData
defaultGetIndex(d) == d.index
defaultGetData(d) == d.data

\* the callback of channels.map for an occupied channel, reading the raw row
\* whether or not the filter has mappedValue
filterValue_rawOnly(filter, d) ==
  LET value == ArrGet(defaultGetData(d), filter.fieldIdx)
  IN  IF notNullorUndefined(value) THEN value - filter.domain[1] ELSE MIN_SAFE_INTEGER

\* the callback of channels.map for an occupied channel
filterValue(filter, d) ==
  LET value == IF filter.mappedValue # Absent
               THEN ArrGet(filter.mappedValue[1], defaultGetIndex(d))
               ELSE ArrGet(defaultGetData(d), filter.fieldIdx)
  IN  IF notNullorUndefined(value) THEN value - filter.domain[1] ELSE MIN_SAFE_INTEGER

\* getFilterValueAccessor(channels)()(d); channels holds positions in filters,
\* 0 for an empty channel
getFilterValueAccessor(filters, channels, d) ==
  [c \in 1..Len(channels) |->
     IF channels[c] = 0 THEN 0 ELSE filterValue(filters[channels[c]], d)]

\* what the filters read: field, mapped values and domain
AccessInputs ==
  { [domain |-> <<3, 9>>,  fieldIdx |-> 0, mappedValue |-> Absent],
    [domain |-> <<0, 50>>, fieldIdx |-> 1, mappedValue |-> Absent],
    [domain |-> <<3, 9>>,  fieldIdx |-> 0, mappedValue |-> Some(<<NullEntry, 8>>)] }

\* gpuChannel of the filters with gpu = true: a full array of channel indices
AccessChannels(n) == {Some(a) : a \in [1..n -> 0..(Capacity - 1)]}

AccessFilters ==
  UNION {{[dataId |-> d, gpu |-> TRUE, gpuChannel |-> c, domain |-> r.domain,
           fieldIdx |-> r.fieldIdx, mappedValue |-> r.mappedValue] :
            c \in AccessChannels(Len(d)), r \in AccessInputs} : d \in DataIdLists}
  \cup {[dataId |-> d, gpu |-> FALSE, gpuChannel |-> Some([k \in 1..Len(d) |-> 0]),
         domain |-> <<3, 9>>, fieldIdx |-> 0, mappedValue |-> Absent] :
            d \in {<<D>> : D \in DataSets}}

\* the collection whose k-th filter is bodies[k] with id k, its names and a
\* value inside its domain
withIdsAndFields(bodies) ==
  [k \in 1..Len(bodies) |->
     [id |-> k, dataId |-> bodies[k].dataId, gpu |-> bodies[k].gpu,
      gpuChannel |-> bodies[k].gpuChannel, domain |-> bodies[k].domain,
      value |-> bodies[k].domain, fieldIdx |-> bodies[k].fieldIdx,
      mappedValue |-> bodies[k].mappedValue,
      name |-> [p \in 1..Len(bodies[k].dataId) |-> fieldName(k, bodies[k].dataId[p])]]]

\* the rows of a dataset: numbers, null, undefined, and a row with one field
allData == << <<4, NullEntry>>, <<Undefined, 6>>, <<0>> >>

\* the datum of row index (0-based)
datum(index) == [index |-> index, data |-> allData[index + 1]]

InitAccess ==
  /\ MAX_GPU_FILTERS = Capacity
  /\ \E n \in 0..MaxFilters : \E b \in [1..n -> AccessFilters] :
       stateFilters = withIdsAndFields(b)
  /\ op = "none"
  /\ target = 0
  /\ before = stateFilters
  /\ result = <<>>
  /\ previous = <<>>

\* getGpuFilterProps(stateFilters, dataId).filterValueAccessor()(d) for row
\* index of the dataset
CallFilterValueAccessor ==
  /\ op = "none"
  /\ \E dataId \in DataSets, index \in 0..(Len(allData) - 1) :
       LET props == getGpuFilterProps(stateFilters, dataId)
       IN  /\ ~props.threw
           /\ result' = [dataId |-> dataId, props |-> props, d |-> datum(index),
                         values |-> getFilterValueAccessor(stateFilters, props.channels,
                                                           datum(index))]
  /\ op' = "filterValueAccessor"
  /\ UNCHANGED <<MAX_GPU_FILTERS, stateFilters, target, before, previous>>

NextAccess == CallFilterValueAccessor

SpecAccess == InitAccess /\ [][NextAccess]_vars

\* the first filter of fs that is an active GPU filter holding channel i for D
firstHolder(fs, D, i) ==
  CHOOSE k \in holders(fs, D, i) : \A j \in holders(fs, D, i) : k <= j

\* the value of the row the filter reads: from mappedValue at the row index
\* when the filter has mappedValue, else from the row at fieldIdx; Undefined
\* when there is no such entry
rowValue(f, d) ==
  IF f.mappedValue # Absent
  THEN IF d.index < Len(f.mappedValue[1]) THEN f.mappedValue[1][d.index + 1] ELSE Undefined
  ELSE IF f.fieldIdx < Len(d.data) THEN d.data[f.fieldIdx + 1] ELSE Undefined

\* C11: the accessor returns MAX_GPU_FILTERS values in channel order: 0 for an
\* empty channel, Number.MIN_SAFE_INTEGER for an occupied channel whose row
\* value is null or undefined, and otherwise the row value (from mappedValue
\* at the row index when the filter has it, else from the row at fieldIdx)
\* minus the filter's domain minimum.
C11_ValueAccessor ==
  op = "filterValueAccessor"
    => /\ Len(result.values) = MAX_GPU_FILTERS
       /\ \A i \in 0..(MAX_GPU_FILTERS - 1) :
            IF holders(stateFilters, result.dataId, i) = {}
            THEN result.values[i + 1] = 0
            ELSE LET f == stateFilters[firstHolder(stateFilters, result.dataId, i)]
                     v == rowValue(f, result.d)
                 IN  result.values[i + 1] =
                       IF v \in {Undefined, NullEntry} THEN MIN_SAFE_INTEGER
                       ELSE v - f.domain[1]

\* a row gives a sentinel on one channel and a mapped value minus a domain
\* minimum that is not 0 on the other
C11_Witness ==
  /\ op = "filterValueAccessor"
  /\ \E i, j \in 1..MAX_GPU_FILTERS :
       /\ result.values[i] = MIN_SAFE_INTEGER
       /\ result.props.channels[j] # 0
       /\ stateFilters[result.props.channels[j]].mappedValue # Absent
       /\ result.values[j] = 8 - 3

\* no filter: every row gives zeros
C11_WitnessEmpty ==
  /\ op = "filterValueAccessor"
  /\ stateFilters = <<>>
  /\ result.values = [i \in 1..MAX_GPU_FILTERS |-> 0]

(***************************************************************************)
(* Properties of one allocation pass (SpecAlloc)                           *)
(***************************************************************************)
\* the filter at index k of fs is an active GPU filter of D holding the finite
\* channel c for D
holdsChannel(fs, k, D, c) == activeOn(fs[k], D) /\ IsFinite(c) /\ channelAt(fs[k], D) = c

\* C12: a gpu = true filter that holds a finite channel c for D in the input
\* of assignGpuChannels, while no other gpu = true filter touching D holds c
\* for D, has c at D's position of gpuChannel in the output, whatever happens
\* to the other filters.
C12_EntryPreserved ==
  op = "assignGpuChannels"
    => \A k \in 1..Len(before) : \A D \in DataSets : \A c \in 0..(MAX_GPU_FILTERS - 1) :
         (holdsChannel(before, k, D, c) /\ ~heldByOther(before, k, D, c))
           => channelAt(result[k], D) = c

\* a filter keeps channel 1, which nobody else holds, while another filter of
\* the dataset is given a channel in the same pass
C12_Witness ==
  /\ op = "assignGpuChannels"
  /\ \E k, j \in 1..Len(before) : \E D \in DataSets :
       /\ holdsChannel(before, k, D, 1)
       /\ ~heldByOther(before, k, D, 1)
       /\ holdsChannel(result, k, D, 1)
       /\ j # k
       /\ activeOn(before[j], D)
       /\ channelAt(before[j], D) # channelAt(result[j], D)

\* some channel of D is held by no active GPU filter of fs
someFree(fs, D) ==
  \E c \in 0..(MAX_GPU_FILTERS - 1) : \A k \in 1..Len(fs) : ~holdsChannel(fs, k, D, c)

\* filters j < k of fs, and no other, hold channel c for D, and another
\* channel is free for D
contested(fs, j, k, D, c) ==
  /\ j < k
  /\ holdsChannel(fs, j, D, c)
  /\ holdsChannel(fs, k, D, c)
  /\ someFree(fs, D)

\* C13: when two gpu = true filters of the input of assignGpuChannels hold the
\* same finite channel c for D and another channel is free for D, the earlier
\* filter keeps c and the later one is moved to a different channel.
C13_EarlierWins ==
  op = "assignGpuChannels"
    => \A j, k \in 1..Len(before) : \A D \in DataSets : \A c \in 0..(MAX_GPU_FILTERS - 1) :
         contested(before, j, k, D, c)
           => channelAt(result[j], D) = c /\ channelAt(result[k], D) # c

\* the least channel of D that no active GPU filter of fs other than the one
\* at index k holds; MAX_GPU_FILTERS when there is none
leastFree(fs, k, D) ==
  IF fullForOthers(fs, k, D) THEN MAX_GPU_FILTERS
  ELSE CHOOSE i \in 0..(MAX_GPU_FILTERS - 1) :
         /\ ~heldByOther(fs, k, D, i)
         /\ \A h \in 0..(i - 1) : heldByOther(fs, k, D, h)

\* assignGpuChannel has to find the filter at index k of fs a channel for D:
\* it holds no finite channel at D's position, or another filter holds its one
needsChannel(fs, k, D) ==
  /\ activeOn(fs[k], D)
  /\ \/ ~IsFinite(channelAt(fs[k], D))
     \/ heldByOther(fs, k, D, channelAt(fs[k], D))

\* filters j < k of fs and no other hold channel c for D, another channel is
\* free for D, and no filter before j has to be found a channel for D
contestedPair(fs, j, k, D, c) ==
  /\ contested(fs, j, k, D, c)
  /\ \A l \in 1..Len(fs) : holdsChannel(fs, l, D, c) => l \in {j, k}
  /\ \A l \in 1..(j - 1) : ~needsChannel(fs, l, D)

\* C13 as the code has it: of exactly two gpu = true filters holding channel c
\* for D in the input of assignGpuChannels, with another channel free for D
\* and no filter before them in need of a channel for D, the later filter
\* keeps c and the earlier one is moved to a different channel.
C13_LaterWins ==
  op = "assignGpuChannels"
    => \A j, k \in 1..Len(before) : \A D \in DataSets : \A c \in 0..(MAX_GPU_FILTERS - 1) :
         contestedPair(before, j, k, D, c)
           => /\ channelAt(result[k], D) = c
              /\ IsFinite(channelAt(result[j], D))
              /\ channelAt(result[j], D) # c

\* two filters of three hold channel 1 of a dataset; after the pass the later
\* one holds it and the earlier one holds channel 0
C13_Witness ==
  /\ op = "assignGpuChannels"
  /\ Len(before) = 3
  /\ \E j, k \in 1..Len(before) : \E D \in DataSets :
       /\ contestedPair(before, j, k, D, 1)
       /\ holdsChannel(result, k, D, 1)
       /\ holdsChannel(result, j, D, 0)

\* C14: when assignGpuChannel assigns a gpu = true filter a new channel for D,
\* the index is the least i of 0..MAX_GPU_FILTERS-1 that no other gpu = true
\* filter including D holds at D's position.
C14_FirstFit ==
  op = "assignGpuChannel"
    => \A D \in DataSets :
         (needsChannel(before, target, D) /\ ~fullForOthers(before, target, D))
           => channelAt(result, D) = leastFree(before, target, D)

C14_Witness ==
  /\ op = "assignGpuChannel"
  /\ \E D \in DataSets :
       /\ needsChannel(before, target, D)
       /\ heldByOther(before, target, D, 0)
       /\ IsFinite(channelAt(before[target], D))
       /\ channelAt(result, D) = 1

\* C15: assignGpuChannels returns a collection of the same length with the
\* same ids in the same order; a filter whose gpu is false in the input is
\* returned with every field unchanged; no gpu flag goes from false to true.
C15_AllocatorFrame ==
  op = "assignGpuChannels"
    => /\ Len(result) = Len(before)
       /\ \A k \in 1..Len(before) :
            /\ result[k].id = before[k].id
            /\ ~before[k].gpu => result[k] = before[k]
            /\ result[k].gpu => before[k].gpu

\* a pass that changes a gpu = true filter and returns a gpu = false filter
\* holding a gpuChannel array next to it
C15_Witness ==
  /\ op = "assignGpuChannels"
  /\ \E j, k \in 1..Len(before) :
       /\ ~before[k].gpu
       /\ before[k].gpuChannel # Absent
       /\ result[k] = before[k]
       /\ before[j].gpu
       /\ result[j] # before[j]

\* C16: assignGpuChannel returns a gpu = true filter whose dataId is empty
\* with gpu = false, whatever gpuChannel the filter carried.
C16_EmptyDataId ==
  (op = "assignGpuChannel" /\ before[target].gpu /\ before[target].dataId = <<>>)
    => ~result.gpu

\* every dataset has at most MAX_GPU_FILTERS active GPU filters in fs, and
\* every gpu = true filter of fs has a dataset
underCapacity(fs) ==
  /\ \A D \in DataSets : activeCount(fs, D) <= MAX_GPU_FILTERS
  /\ \A k \in 1..Len(fs) : fs[k].gpu => fs[k].dataId # <<>>

\* the filter has a finite channel at every position of dataId
fullyAssigned(f) ==
  \A p \in 1..Len(f.dataId) : IsFinite(ArrGet(arrayfy(f.gpuChannel), p - 1))

\* C19: when the input of assignGpuChannels has at most MAX_GPU_FILTERS
\* gpu = true filters per dataset and no gpu = true filter with an empty
\* dataId, every filter with gpu = true in the input has gpu = true and a
\* finite channel for every dataset of its dataId in the output.
C19_NoDowngrade ==
  (op = "assignGpuChannels" /\ underCapacity(before))
    => \A k \in 1..Len(before) :
         before[k].gpu => result[k].gpu /\ fullyAssigned(result[k])

\* a dataset at capacity whose filters all lacked a channel for it
C19_Witness ==
  /\ op = "assignGpuChannels"
  /\ underCapacity(before)
  /\ \E D \in DataSets :
       /\ activeCount(before, D) = MAX_GPU_FILTERS
       /\ \A k \in 1..Len(before) :
            activeOn(before[k], D)
              => ~IsFinite(channelAt(before[k], D)) /\ IsFinite(channelAt(result[k], D))

(***************************************************************************)
(* Properties of the collection over its lifetime                          *)
(***************************************************************************)
\* C17: in every state the editing layer reaches from the empty collection
\* (append, remove, toggle, each followed by resetFilterGpuMode and
\* assignGpuChannels), the gpuChannel of every gpu = true filter has the
\* length of dataId and every entry of it is an integer c with
\* 0 <= c < MAX_GPU_FILTERS.
C17_ChannelRange ==
  \A k \in 1..Len(stateFilters) :
    LET f == stateFilters[k]
    IN  f.gpu => /\ f.gpuChannel # Absent
                 /\ Len(f.gpuChannel[1]) = Len(f.dataId)
                 /\ \A p \in 1..Len(f.gpuChannel[1]) :
                      f.gpuChannel[1][p] \in 0..(MAX_GPU_FILTERS - 1)

\* a full collection in which a filter over two datasets holds the last
\* channel of one and the first of the other
C17_Witness ==
  /\ Len(stateFilters) = MaxFilters
  /\ \E k \in 1..Len(stateFilters) :
       /\ stateFilters[k].gpu
       /\ Len(stateFilters[k].dataId) = 2
       /\ stateFilters[k].gpuChannel = Some(<<MAX_GPU_FILTERS - 1, 0>>)

\* appends and removals only
NextIncremental == AddFilter \/ RemoveFilter

SpecIncremental == Init /\ [][NextIncremental]_vars

\* the filter of fs with the given id: its index, 0 when there is none
indexOfId(fs, id) ==
  IF id \in usedIds(fs) THEN CHOOSE k \in 1..Len(fs) : fs[k].id = id ELSE 0

\* C18: in a sequence of appends and removals, each followed by
\* resetFilterGpuMode and assignGpuChannels, a filter with gpu = true and a
\* finite channel for every dataset after one step has the same gpu flag and
\* the same gpuChannel after the next step unless that step removes it (and so
\* after every later step until it is removed).
C18_NoFlicker ==
  [][ \A k \in 1..Len(stateFilters) :
        LET f  == stateFilters[k]
            k2 == indexOfId(stateFilters', f.id)
        IN  (f.gpu /\ fullyAssigned(f) /\ k2 # 0)
              => /\ stateFilters'[k2].gpu = f.gpu
                 /\ stateFilters'[k2].gpuChannel = f.gpuChannel ]_vars

\* after a removal a filter holds channel 1 of a dataset whose channel 0
\* nobody holds: it kept the channel it had before the holder of 0 was removed
C18_Witness ==
  /\ op = "remove"
  /\ \E k \in 1..Len(stateFilters) : \E D \in DataSets :
       /\ holdsChannel(stateFilters, k, D, 1)
       /\ \A j \in 1..Len(stateFilters) : ~holdsChannel(stateFilters, j, D, 0)

====
